---- MODULE Spec2Model ----
(***************************************************************************)
(* web3_privacy_matrix (src/app.py): a fixed catalog of three privacy      *)
(* stacks, a composite score, and a command line that selects, scores,     *)
(* sorts and renders them as a table, CSV or JSON.                         *)
(*                                                                         *)
(* Representation.                                                         *)
(*  - Text (a Python str) is a sequence of code points, so that joining,   *)
(*    padding, upper-casing, quoting and comparing are computed, not       *)
(*    assumed.  Field names, which are dict keys, are TLA+ strings;        *)
(*    FieldText gives their characters.                                    *)
(*  - A cell value is a record [t, s, n]: t is "str", "int" or "float";    *)
(*    s is the text of a str; n is the int, or the float in hundredths     *)
(*    (every float the program makes is round(x, 2)).                      *)
(*  - Objects live in heap, a function from references (naturals) to       *)
(*    dicts (functions from field names to values): a PrivacyStack         *)
(*    instance and a row dict are both heap objects, so that a row that    *)
(*    aliased a catalog record would show as a write to the catalog.       *)
(*  - Printed output is the sequence of lines that print() writes.         *)
(***************************************************************************)
EXTENDS Integers, Sequences, FiniteSets, TLC

VARIABLES STACKS, heap, args, pc, stacks, rows, out, last, par, ret

vars == <<STACKS, heap, args, pc, stacks, rows, out, last, par, ret>>

----------------------------------------------------------------------------
(* Bounds of the unit specifications. *)

\* longest list of stacks handed to build_rows in SpecBuild
MaxSel == 3
\* longest list of rows handed to sort_rows in SpecSort
MaxRows == 4
\* largest sort-key value of a synthetic row in SpecSort
MaxKey == 1
\* longest cell text handed to esc in SpecEsc
MaxLen == 4

(* Program constants. *)

\* the fields are documented as 1-10
MaxField == 10
Comma == 44
DQuote == 34
Newline == 10
Space == 32
Dash == 45
Dot == 46
Colon == 58
Backslash == 92
\* ord("0")
Zero == 48
\* ord("a") - ord("A"), the distance str.upper() moves a lower-case letter
CaseGap == 32
\* the letter n of the JSON escape of a newline
LetterN == 110
\* indent=2 of json.dumps
Indent == 2
LBrace == 123
RBrace == 125
LBracket == 91
RBracket == 93
\* ord("a") and ord("z")
LowerA == 97
LowerZ == 122

None == "None"

----------------------------------------------------------------------------
(* Values and text *)

V_str(s) == [t |-> "str", s |-> s, n |-> 0]
V_int(n) == [t |-> "int", s |-> <<>>, n |-> n]
V_float(h) == [t |-> "float", s |-> <<>>, n |-> h]

FIELDS_ORDER == <<"key", "name", "family", "privacy_level", "soundness_focus", "performance_cost", "dev_complexity", "ecosystem_maturity">>

\* the attributes of the dataclass, in declaration order
StackFields == <<"key", "name", "family", "description", "privacy_level", "soundness_focus", "performance_cost", "dev_complexity", "ecosystem_maturity">>

\* the characters of each field name
FieldText ==
    "key" :> <<107, 101, 121>> @@
    "name" :> <<110, 97, 109, 101>> @@
    "family" :> <<102, 97, 109, 105, 108, 121>> @@
    "privacy_level" :> <<112, 114, 105, 118, 97, 99, 121, 95, 108, 101, 118, 101, 108>> @@
    "soundness_focus" :> <<115, 111, 117, 110, 100, 110, 101, 115, 115, 95, 102, 111, 99, 117, 115>> @@
    "performance_cost" :> <<112, 101, 114, 102, 111, 114, 109, 97, 110, 99, 101, 95, 99, 111, 115, 116>> @@
    "dev_complexity" :> <<100, 101, 118, 95, 99, 111, 109, 112, 108, 101, 120, 105, 116, 121>> @@
    "ecosystem_maturity" :> <<101, 99, 111, 115, 121, 115, 116, 101, 109, 95, 109, 97, 116, 117, 114, 105, 116, 121>> @@
    "description" :> <<100, 101, 115, 99, 114, 105, 112, 116, 105, 111, 110>> @@
    "composite_score" :> <<99, 111, 109, 112, 111, 115, 105, 116, 101, 95, 115, 99, 111, 114, 101>>

\* the command-line word "all"
Text_all == <<97, 108, 108>>

\* "aztec"
aztec_key == <<97, 122, 116, 101, 99>>
\* "Aztec-style zk Rollup"
aztec_name == <<65, 122, 116, 101, 99, 45, 115, 116, 121, 108, 101, 32, 122, 107, 32, 82, 111, 108, 108, 117, 112>>
\* "zk-SNARK privacy L2"
aztec_family == <<122, 107, 45, 83, 78, 65, 82, 75, 32, 112, 114, 105, 118, 97, 99, 121, 32, 76, 50>>
\* "Encrypted L2 state and zero-knowledge proofs over Ethereum."
aztec_description == <<69, 110, 99, 114, 121, 112, 116, 101, 100, 32, 76, 50, 32, 115, 116, 97, 116, 101, 32, 97, 110, 100, 32, 122, 101, 114, 111, 45, 107, 110, 111, 119, 108, 101, 100, 103, 101, 32, 112, 114, 111, 111, 102, 115, 32, 111, 118, 101, 114, 32, 69, 116, 104, 101, 114, 101, 117, 109, 46>>

\* "zama"
zama_key == <<122, 97, 109, 97>>
\* "Zama-style FHE Compute"
zama_name == <<90, 97, 109, 97, 45, 115, 116, 121, 108, 101, 32, 70, 72, 69, 32, 67, 111, 109, 112, 117, 116, 101>>
\* "FHE + Web3"
zama_family == <<70, 72, 69, 32, 43, 32, 87, 101, 98, 51>>
\* "Fully homomorphic encryption over on-chain or off-chain data."
zama_description == <<70, 117, 108, 108, 121, 32, 104, 111, 109, 111, 109, 111, 114, 112, 104, 105, 99, 32, 101, 110, 99, 114, 121, 112, 116, 105, 111, 110, 32, 111, 118, 101, 114, 32, 111, 110, 45, 99, 104, 97, 105, 110, 32, 111, 114, 32, 111, 102, 102, 45, 99, 104, 97, 105, 110, 32, 100, 97, 116, 97, 46>>

\* "soundness"
soundness_key == <<115, 111, 117, 110, 100, 110, 101, 115, 115>>
\* "Soundness-first Lab"
soundness_name == <<83, 111, 117, 110, 100, 110, 101, 115, 115, 45, 102, 105, 114, 115, 116, 32, 76, 97, 98>>
\* "Formal verification"
soundness_family == <<70, 111, 114, 109, 97, 108, 32, 118, 101, 114, 105, 102, 105, 99, 97, 116, 105, 111, 110>>
\* "Specification-driven, proof-oriented engineering for Web3 protocols."
soundness_description == <<83, 112, 101, 99, 105, 102, 105, 99, 97, 116, 105, 111, 110, 45, 100, 114, 105, 118, 101, 110, 44, 32, 112, 114, 111, 111, 102, 45, 111, 114, 105, 101, 110, 116, 101, 100, 32, 101, 110, 103, 105, 110, 101, 101, 114, 105, 110, 103, 32, 102, 111, 114, 32, 87, 101, 98, 51, 32, 112, 114, 111, 116, 111, 99, 111, 108, 115, 46>>

\* PrivacyStack(...): the attribute dict of one dataclass instance
PrivacyStack(key, name, family, description, privacy_level, soundness_focus, performance_cost, dev_complexity, ecosystem_maturity) ==
    [f \in {StackFields[i] : i \in 1..Len(StackFields)} |->
        CASE f = "key" -> V_str(key)
          [] f = "name" -> V_str(name)
          [] f = "family" -> V_str(family)
          [] f = "description" -> V_str(description)
          [] f = "privacy_level" -> V_int(privacy_level)
          [] f = "soundness_focus" -> V_int(soundness_focus)
          [] f = "performance_cost" -> V_int(performance_cost)
          [] f = "dev_complexity" -> V_int(dev_complexity)
          [] f = "ecosystem_maturity" -> V_int(ecosystem_maturity)]

Stack_aztec == PrivacyStack(aztec_key, aztec_name, aztec_family, aztec_description, 9, 8, 7, 8, 7)
Stack_zama == PrivacyStack(zama_key, zama_name, zama_family, zama_description, 8, 9, 9, 9, 5)
Stack_soundness == PrivacyStack(soundness_key, soundness_name, soundness_family, soundness_description, 6, 10, 6, 7, 8)

\* the three instances, at references 1..3, as the module body creates them
InitHeap == <<Stack_aztec, Stack_zama, Stack_soundness>>

\* the STACKS dict: insertion-ordered, key text to instance reference
InitSTACKS == <<[key |-> aztec_key, ref |-> 1], [key |-> zama_key, ref |-> 2], [key |-> soundness_key, ref |-> 3]>>

----------------------------------------------------------------------------
(* Python built-ins the program uses, on the representation above *)

RECURSIVE Digits(_)
Digits(n) == IF n < 10 THEN <<Zero + n>> ELSE Digits(n \div 10) \o <<Zero + (n % 10)>>

\* str(n) of an int
IntStr(n) == IF n < 0 THEN <<Dash>> \o Digits(0 - n) ELSE Digits(n)

\* str(x) of a float that is a whole number of hundredths: the shortest
\* decimal that reads back as x, with at least one fractional digit
FloatStr(h) ==
    LET a == IF h < 0 THEN 0 - h ELSE h
        frac == IF a % 10 = 0 THEN <<Zero + ((a % 100) \div 10)>>
                ELSE <<Zero + ((a % 100) \div 10), Zero + (a % 10)>>
    IN (IF h < 0 THEN <<Dash>> ELSE <<>>) \o Digits(a \div 100) \o <<Dot>> \o frac

\* str(value)
Str(v) == CASE v.t = "str" -> v.s [] v.t = "int" -> IntStr(v.n) [] v.t = "float" -> FloatStr(v.n)

\* round(x, 2) of x given in ten-thousandths, in hundredths: to nearest, ties to even
Round2(x) ==
    LET q == x \div 100
        r == x % 100
    IN IF 2 * r < 100 THEN q
       ELSE IF 2 * r > 100 THEN q + 1
       ELSE IF q % 2 = 0 THEN q ELSE q + 1

\* a < b on str: by code point, a proper prefix first
RECURSIVE TextLess(_, _)
TextLess(a, b) ==
    IF b = <<>> THEN FALSE
    ELSE IF a = <<>> THEN TRUE
    ELSE IF Head(a) # Head(b) THEN Head(a) < Head(b)
    ELSE TextLess(Tail(a), Tail(b))

\* a number in hundredths, to compare an int with a float
Num(v) == IF v.t = "int" THEN 100 * v.n ELSE v.n

\* a < b on the values the sort key takes (str with str, number with number)
ValLess(a, b) == IF a.t = "str" /\ b.t = "str" THEN TextLess(a.s, b.s) ELSE Num(a) < Num(b)

\* s.upper() on ASCII text
Upper(s) == [i \in 1..Len(s) |-> IF s[i] >= LowerA /\ s[i] <= LowerZ THEN s[i] - CaseGap ELSE s[i]]

\* c * n for a one-character string c
Repeat(c, n) == [i \in 1..n |-> c]

\* s.ljust(w)
Ljust(s, w) == IF Len(s) >= w THEN s ELSE s \o Repeat(Space, w - Len(s))

\* sep.join(parts)
RECURSIVE Join(_, _)
Join(sep, parts) ==
    IF parts = <<>> THEN <<>>
    ELSE IF Len(parts) = 1 THEN parts[1]
    ELSE parts[1] \o sep \o Join(sep, Tail(parts))

\* d.get(k, default)
Get(d, k, default) == IF k \in DOMAIN d THEN d[k] ELSE default

\* d[k] = v
SetItem(d, k, v) == [x \in (DOMAIN d) \cup {k} |-> IF x = k THEN v ELSE d[x]]

Max(a, b) == IF a >= b THEN a ELSE b

Reverse(s) == [i \in 1..Len(s) |-> s[Len(s) + 1 - i]]

\* one insertion of a stable ascending sort: x goes after every element not greater than it
RECURSIVE Insert(_, _, _, _)
Insert(h, sorted, x, sort_by) ==
    IF sorted = <<>> THEN <<x>>
    ELSE IF ValLess(Get(h[x], sort_by, V_int(0)), Get(h[Head(sorted)], sort_by, V_int(0)))
         THEN <<x>> \o sorted
         ELSE <<Head(sorted)>> \o Insert(h, Tail(sorted), x, sort_by)

RECURSIVE StableSort(_, _, _)
StableSort(h, s, sort_by) ==
    IF s = <<>> THEN <<>>
    ELSE Insert(h, StableSort(h, SubSeq(s, 1, Len(s) - 1), sort_by), s[Len(s)], sort_by)

\* list.sort without the slice reversals: the result of the ascending sort, turned around
SortedNoPreReverse(h, s, sort_by, reverse) ==
    IF reverse THEN Reverse(StableSort(h, s, sort_by)) ELSE StableSort(h, s, sort_by)

\* sorted(rows, key=lambda r: r.get(sort_by, 0), reverse=reverse) over row references:
\* a stable ascending sort; with reverse the list is turned around before and after it
Sorted(h, s, sort_by, reverse) ==
    IF reverse THEN Reverse(StableSort(h, Reverse(s), sort_by)) ELSE StableSort(h, s, sort_by)

----------------------------------------------------------------------------
(* The program's functions *)

\* list(STACKS.keys())
list_keys(S) == [i \in 1..Len(S) |-> S[i].key]

\* STACKS[key]
Lookup(S, key) == S[CHOOSE i \in 1..Len(S) : S[i].key = key].ref

\* a to_dict that hands back the instance's own attribute dict (stack.__dict__): no copy
to_dict_alias(h, ref) == [heap |-> h, ref |-> ref]

\* a to_dict that projects on FIELDS_ORDER, dropping description
to_dict_fields(h, ref) ==
    [heap |-> Append(h, [f \in {FIELDS_ORDER[i] : i \in 1..Len(FIELDS_ORDER)} |-> h[ref][f]]), ref |-> Len(h) + 1]

\* asdict(stack): a new dict with every attribute of the instance
to_dict(h, ref) == [heap |-> Append(h, h[ref]), ref |-> Len(h) + 1]

\* a score that also rewards ecosystem_maturity
score_stack_maturity(stack) ==
    V_float(Round2(4500 * stack["privacy_level"].n + 4000 * stack["soundness_focus"].n + 500 * stack["ecosystem_maturity"].n
                   - (1000 * stack["performance_cost"].n + 500 * stack["dev_complexity"].n)))

\* benefit and penalty in ten-thousandths
score_stack(stack) ==
    LET benefit == 4500 * stack["privacy_level"].n + 4000 * stack["soundness_focus"].n
        penalty == 1000 * stack["performance_cost"].n + 500 * stack["dev_complexity"].n
    IN V_float(Round2(benefit - penalty))

RECURSIVE build_loop(_, _, _, _)
build_loop(h, selected, include_score, acc) ==
    IF selected = <<>> THEN [heap |-> h, rows |-> acc]
    ELSE LET s == Head(selected)
             d == to_dict(h, s)
             h2 == IF include_score
                   THEN [d.heap EXCEPT ![d.ref] = SetItem(@, "composite_score", score_stack(h[s]))]
                   ELSE d.heap
         IN build_loop(h2, Tail(selected), include_score, Append(acc, d.ref))

\* a build_rows that scores every row whatever the flag
build_rows_always(h, selected, include_score) == build_loop(h, selected, TRUE, <<>>)

build_rows(h, selected, include_score) == build_loop(h, selected, include_score, <<>>)

\* headers = FIELDS_ORDER.copy(); if include_score: headers.append("composite_score")
Headers(include_score) == IF include_score THEN Append(FIELDS_ORDER, "composite_score") ELSE FIELDS_ORDER

\* the column width of header hd over the rows
col_width(h, rws, hd) ==
    LET RECURSIVE W(_, _)
        W(i, w) == IF i > Len(rws) THEN w
                   ELSE W(i + 1, Max(w, Len(Str(Get(h[rws[i]], hd, V_str(<<>>))))))
    IN W(1, Len(FieldText[hd]))

format_table(h, rws, include_score) ==
    LET headers == Headers(include_score)
        sep == <<Space, Space>>
        header_line == Join(sep, [i \in 1..Len(headers) |-> Ljust(Upper(FieldText[headers[i]]), col_width(h, rws, headers[i]))])
        separator == Join(sep, [i \in 1..Len(headers) |-> Repeat(Dash, col_width(h, rws, headers[i]))])
        line(r) == Join(sep, [i \in 1..Len(headers) |-> Ljust(Str(Get(h[r], headers[i], V_str(<<>>))), col_width(h, rws, headers[i]))])
    IN <<header_line, separator>> \o [i \in 1..Len(rws) |-> line(rws[i])]

\* s.replace('"', '""')
RECURSIVE DoubleQuotes(_)
DoubleQuotes(s) ==
    IF s = <<>> THEN <<>>
    ELSE (IF Head(s) = DQuote THEN <<DQuote, DQuote>> ELSE <<Head(s)>>) \o DoubleQuotes(Tail(s))

\* an esc that wraps the cell without doubling the quotes inside it
esc_nodouble(v) ==
    LET s == Str(v)
    IN IF \E i \in 1..Len(s) : s[i] \in {Comma, DQuote, Newline}
       THEN <<DQuote>> \o s \o <<DQuote>>
       ELSE s

esc(v) ==
    LET s == Str(v)
    IN IF \E i \in 1..Len(s) : s[i] \in {Comma, DQuote, Newline}
       THEN <<DQuote>> \o DoubleQuotes(s) \o <<DQuote>>
       ELSE s

format_csv(h, rws, include_score) ==
    LET headers == Headers(include_score)
        line(r) == Join(<<Comma>>, [i \in 1..Len(headers) |-> esc(Get(h[r], headers[i], V_str(<<>>)))])
    IN <<Join(<<Comma>>, [i \in 1..Len(headers) |-> FieldText[headers[i]]])>> \o [i \in 1..Len(rws) |-> line(rws[i])]

\* the keys of a dict, sorted as str (sort_keys=True)
RECURSIVE SortedKeys(_)
SortedKeys(ks) ==
    IF ks = {} THEN <<>>
    ELSE LET m == CHOOSE k \in ks : \A o \in ks \ {k} : TextLess(FieldText[k], FieldText[o])
         IN <<m>> \o SortedKeys(ks \ {m})

\* the JSON string literal of ASCII text
RECURSIVE JsonEscape(_)
JsonEscape(s) ==
    IF s = <<>> THEN <<>>
    ELSE (CASE Head(s) = DQuote -> <<Backslash, DQuote>>
            [] Head(s) = Backslash -> <<Backslash, Backslash>>
            [] Head(s) = Newline -> <<Backslash, LetterN>>
            [] OTHER -> <<Head(s)>>) \o JsonEscape(Tail(s))

JsonStr(s) == <<DQuote>> \o JsonEscape(s) \o <<DQuote>>

JsonValue(v) == IF v.t = "str" THEN JsonStr(v.s) ELSE Str(v)

\* json.dumps(rows, indent=2, sort_keys=True), line by line
json_dumps(h, rws) ==
    LET obj(r, lastObj) ==
            LET ks == SortedKeys(DOMAIN h[r])
                close == Repeat(Space, Indent) \o <<RBrace>> \o (IF lastObj THEN <<>> ELSE <<Comma>>)
            IN IF ks = <<>> THEN <<Repeat(Space, Indent) \o <<LBrace, RBrace>> \o (IF lastObj THEN <<>> ELSE <<Comma>>)>>
               ELSE <<Repeat(Space, Indent) \o <<LBrace>>>>
                    \o [i \in 1..Len(ks) |->
                          Repeat(Space, 2 * Indent) \o JsonStr(FieldText[ks[i]]) \o <<Colon, Space>>
                          \o JsonValue(h[r][ks[i]]) \o (IF i = Len(ks) THEN <<>> ELSE <<Comma>>)]
                    \o <<close>>
        RECURSIVE objs(_)
        objs(i) == IF i > Len(rws) THEN <<>> ELSE obj(rws[i], i = Len(rws)) \o objs(i + 1)
    IN IF rws = <<>> THEN <<(<<LBracket, RBracket>>)>>
       ELSE <<(<<LBracket>>)>> \o objs(1) \o <<(<<RBracket>>)>>

\* select_stacks(key): every instance in catalog order, or the one named
select_stacks(S, key) ==
    IF key = Text_all THEN [i \in 1..Len(S) |-> S[i].ref] ELSE <<Lookup(S, key)>>

\* a sort_rows that turns the rows around for --descending even without a sort key
sort_rows_eager(h, rws, sort_by, descending) ==
    IF sort_by = None THEN (IF descending THEN Reverse(rws) ELSE rws)
    ELSE Sorted(h, rws, sort_by, descending)

\* a sort_rows whose descending order is the ascending result turned around
sort_rows_flip(h, rws, sort_by, descending) ==
    IF sort_by = None THEN rws ELSE SortedNoPreReverse(h, rws, sort_by, descending)

\* a sort_rows that ignores --descending
sort_rows_asc(h, rws, sort_by, descending) ==
    IF sort_by = None THEN rws ELSE Sorted(h, rws, sort_by, FALSE)

sort_rows(h, rws, sort_by, descending) ==
    IF sort_by = None THEN rws ELSE Sorted(h, rws, sort_by, descending)

\* the renderers' include_score as if main passed the flag alone
show_score_flag(a) == a.include_score

\* include_score=args.include_score or args.sort_by == "composite_score"
show_score(a) == a.include_score \/ a.sort_by = "composite_score"

----------------------------------------------------------------------------
(* The command line *)

\* choices=list_keys() + ["all"]
StackChoices == {InitSTACKS[i].key : i \in 1..Len(InitSTACKS)} \cup {Text_all}

\* choices=FIELDS_ORDER + ["composite_score"], default None
SortChoices == {FIELDS_ORDER[i] : i \in 1..Len(FIELDS_ORDER)} \cup {"composite_score", None}

\* every Namespace parse_args can return
ArgSet == [stack : StackChoices, format : {"table", "csv", "json"}, include_score : BOOLEAN, sort_by : SortChoices, descending : BOOLEAN]

\* the Namespace of an empty command line
DefaultArgs == [stack |-> Text_all, format |-> "table", include_score |-> FALSE, sort_by |-> None, descending |-> FALSE]

----------------------------------------------------------------------------
(* One run of main, step by step; a finished run can be followed by a run  *)
(* of the same command line with --include-score toggled, and `last`       *)
(* keeps the finished run's arguments and output.                          *)

Init ==
    /\ STACKS = InitSTACKS
    /\ heap = InitHeap
    /\ args \in ArgSet
    /\ pc = "start"
    /\ stacks = <<>>
    /\ rows = <<>>
    /\ out = <<>>
    /\ last = <<>>
    /\ par = <<>>
    /\ ret = <<>>

\* stacks = select_stacks(args.stack)
Select ==
    /\ pc = "start"
    /\ stacks' = select_stacks(STACKS, args.stack)
    /\ pc' = "selected"
    /\ UNCHANGED <<STACKS, heap, args, rows, out, last, par, ret>>

\* rows = build_rows(stacks, include_score=args.include_score)
Build ==
    /\ pc = "selected"
    /\ LET b == build_rows(heap, stacks, args.include_score)
       IN /\ heap' = b.heap
          /\ rows' = b.rows
    /\ pc' = "built"
    /\ UNCHANGED <<STACKS, args, stacks, out, last, par, ret>>

\* a scoring loop that looks up the first catalog record for every row
score_loop_first(S, h, rws) ==
    [r \in 1..Len(h) |->
        IF \E i \in 1..Len(rws) : rws[i] = r
        THEN SetItem(h[r], "composite_score", score_stack(h[S[1].ref]))
        ELSE h[r]]

\* for r in rows: key = r["key"]; r["composite_score"] = score_stack(STACKS[key])
RECURSIVE score_loop(_, _, _)
score_loop(S, h, rws) ==
    IF rws = <<>> THEN h
    ELSE LET r == Head(rws)
             key == h[r]["key"].s
         IN score_loop(S, [h EXCEPT ![r] = SetItem(@, "composite_score", score_stack(h[Lookup(S, key)]))], Tail(rws))

ScoreForSort ==
    /\ pc = "built"
    /\ heap' = IF args.sort_by = "composite_score" /\ ~args.include_score
               THEN score_loop(STACKS, heap, rows)
               ELSE heap
    /\ pc' = "scored"
    /\ UNCHANGED <<STACKS, args, stacks, rows, out, last, par, ret>>

\* rows = sort_rows(rows, sort_by=args.sort_by, descending=args.descending)
Sort ==
    /\ pc = "scored"
    /\ rows' = sort_rows(heap, rows, args.sort_by, args.descending)
    /\ pc' = "sorted"
    /\ UNCHANGED <<STACKS, heap, args, stacks, out, last, par, ret>>

\* the lines main prints for the chosen format
Render(h, rws, a) ==
    IF a.format = "json" THEN json_dumps(h, rws)
    ELSE IF a.format = "csv" THEN format_csv(h, rws, show_score(a))
    ELSE format_table(h, rws, show_score(a))

PrintOut ==
    /\ pc = "sorted"
    /\ out' = Render(heap, rows, args)
    /\ pc' = "done"
    /\ UNCHANGED <<STACKS, heap, args, stacks, rows, last, par, ret>>

\* a new process: the module body builds the catalog again, the command
\* line is the finished run's with --include-score toggled
Rerun ==
    /\ pc = "done"
    /\ last' = <<[args |-> args, out |-> out]>>
    /\ args' = [args EXCEPT !.include_score = ~@]
    /\ STACKS' = InitSTACKS
    /\ heap' = InitHeap
    /\ stacks' = <<>>
    /\ rows' = <<>>
    /\ out' = <<>>
    /\ pc' = "start"
    /\ UNCHANGED <<par, ret>>

Next == Select \/ Build \/ ScoreForSort \/ Sort \/ PrintOut \/ Rerun

Spec == Init /\ [][Next]_vars

----------------------------------------------------------------------------
(* score_stack on every stack whose numeric fields lie in 1..MaxField *)

ScoreInputs ==
    {Stack_aztec, Stack_zama, Stack_soundness}
    \cup {PrivacyStack(aztec_key, aztec_name, aztec_family, aztec_description, p, s, c, d, m) :
            p \in 1..MaxField, s \in 1..MaxField, c \in 1..MaxField, d \in 1..MaxField, m \in 1..MaxField}

InitScore ==
    /\ STACKS = <<>>
    /\ heap = <<>>
    /\ args = DefaultArgs
    /\ pc = "call_score"
    /\ stacks = <<>>
    /\ rows = <<>>
    /\ out = <<>>
    /\ last = <<>>
    /\ par \in ScoreInputs
    /\ ret = <<>>

CallScore ==
    /\ pc = "call_score"
    /\ ret' = score_stack(par)
    /\ pc' = "ret_score"
    /\ UNCHANGED <<STACKS, heap, args, stacks, rows, out, last, par>>

NextScore == CallScore

SpecScore == InitScore /\ [][NextScore]_vars

----------------------------------------------------------------------------
(* build_rows on every list of at most MaxSel catalog stacks *)

SeqsUpTo(S, n) == UNION {[1..k -> S] : k \in 0..n}

InitBuild ==
    /\ STACKS = InitSTACKS
    /\ heap = InitHeap
    /\ args \in {[DefaultArgs EXCEPT !.include_score = b] : b \in BOOLEAN}
    /\ pc = "call_build"
    /\ stacks \in SeqsUpTo({InitSTACKS[i].ref : i \in 1..Len(InitSTACKS)}, MaxSel)
    /\ rows = <<>>
    /\ out = <<>>
    /\ last = <<>>
    /\ par = <<>>
    /\ ret = <<>>

CallBuild ==
    /\ pc = "call_build"
    /\ LET b == build_rows(heap, stacks, args.include_score)
       IN /\ heap' = b.heap
          /\ rows' = b.rows
    /\ pc' = "ret_build"
    /\ UNCHANGED <<STACKS, args, stacks, out, last, par, ret>>

NextBuild == CallBuild

SpecBuild == InitBuild /\ [][NextBuild]_vars

----------------------------------------------------------------------------
(* sort_rows on every list of at most MaxRows synthetic rows: row i has    *)
(* the key text "i" and either no privacy_level or one in 0..MaxKey        *)

SynthRow(i, k) ==
    IF k < 0 THEN ("key" :> V_str(Digits(i)))
    ELSE ("key" :> V_str(Digits(i))) @@ ("privacy_level" :> V_int(k))

InitSort ==
    /\ STACKS = <<>>
    /\ \E n \in 0..MaxRows : \E ks \in [1..n -> (-1)..MaxKey] :
          /\ heap = [i \in 1..n |-> SynthRow(i, ks[i])]
          /\ rows = [i \in 1..n |-> i]
    /\ args \in {[DefaultArgs EXCEPT !.sort_by = sb, !.descending = d] : sb \in {None, "privacy_level"}, d \in BOOLEAN}
    /\ pc = "call_sort"
    /\ stacks = <<>>
    /\ out = <<>>
    /\ last = <<>>
    /\ par = <<>>
    /\ ret = <<>>

CallSort ==
    /\ pc = "call_sort"
    /\ ret' = sort_rows(heap, rows, args.sort_by, args.descending)
    /\ pc' = "ret_sort"
    /\ UNCHANGED <<STACKS, heap, args, stacks, rows, out, last, par>>

NextSort == CallSort

SpecSort == InitSort /\ [][NextSort]_vars

\* the unit calls of sort_rows together with the runs of main
SpecSortMain == (InitSort \/ Init) /\ [][NextSort \/ Next]_vars

----------------------------------------------------------------------------
(* esc on every text of at most MaxLen characters over a letter and the    *)
(* three special characters, and on every cell value of the catalog        *)

EscAlphabet == {LowerA, Comma, DQuote, Newline}

EscInputs ==
    {V_str(s) : s \in SeqsUpTo(EscAlphabet, MaxLen)}
    \cup {InitHeap[i][f] : i \in 1..Len(InitHeap), f \in DOMAIN InitHeap[1]}
    \cup {score_stack(InitHeap[i]) : i \in 1..Len(InitHeap)}

InitEsc ==
    /\ STACKS = <<>>
    /\ heap = <<>>
    /\ args = DefaultArgs
    /\ pc = "call_esc"
    /\ stacks = <<>>
    /\ rows = <<>>
    /\ out = <<>>
    /\ last = <<>>
    /\ par \in EscInputs
    /\ ret = <<>>

CallEsc ==
    /\ pc = "call_esc"
    /\ ret' = esc(par)
    /\ pc' = "ret_esc"
    /\ UNCHANGED <<STACKS, heap, args, stacks, rows, out, last, par>>

NextEsc == CallEsc

SpecEsc == InitEsc /\ [][NextEsc]_vars

----------------------------------------------------------------------------
(* Reading the printed text back *)

\* the members of a set of positions, in increasing order
Ascending(S) == [k \in 1..Cardinality(S) |-> CHOOSE p \in S : Cardinality({q \in S : q < p}) = k - 1]

\* text.split(c): the pieces between the occurrences of c
Split(s, c) ==
    LET seps == Ascending({i \in 1..Len(s) : s[i] = c})
        n == Len(seps)
    IN [k \in 1..(n + 1) |->
          SubSeq(s, IF k = 1 THEN 1 ELSE seps[k - 1] + 1, IF k = n + 1 THEN Len(s) ELSE seps[k] - 1)]

\* text.split(): the words between runs of spaces
Words(s) ==
    LET starts == Ascending({i \in 1..Len(s) : s[i] # Space /\ (i = 1 \/ s[i - 1] = Space)})
        stops == Ascending({i \in 1..Len(s) : s[i] # Space /\ (i = Len(s) \/ s[i + 1] = Space)})
    IN [k \in 1..Len(starts) |-> SubSeq(s, starts[k], stops[k])]

IsPrefix(p, s) == Len(p) <= Len(s) /\ SubSeq(s, 1, Len(p)) = p

\* the number a run of decimal digits writes
RECURSIVE DigitsValue(_)
DigitsValue(s) == IF s = <<>> THEN 0 ELSE 10 * DigitsValue(SubSeq(s, 1, Len(s) - 1)) + (s[Len(s)] - Zero)

\* the hundredths a printed score such as 6.15 or 6.1 reads as
ParseScore(s) ==
    LET neg == s # <<>> /\ s[1] = Dash
        body == IF neg THEN Tail(s) ELSE s
        parts == Split(body, Dot)
        frac == IF Len(parts) < 2 THEN 0
                ELSE IF Len(parts[2]) = 1 THEN 10 * DigitsValue(parts[2])
                ELSE DigitsValue(SubSeq(parts[2], 1, 2))
        a == 100 * DigitsValue(parts[1]) + frac
    IN IF neg THEN 0 - a ELSE a

\* the cells of each printed CSV line (no catalog cell needs quoting)
CsvCells(o) == [i \in 1..Len(o) |-> Split(o[i], Comma)]

\* the line that opens an object in the JSON text, and the start of a key line
JsonOpen == Repeat(Space, Indent) \o <<LBrace>>
JsonKeyStart == Repeat(Space, 2 * Indent) \o <<DQuote>>

\* the indexes of the lines that open an object
JsonObjects(o) == {i \in 1..Len(o) : o[i] = JsonOpen}

\* the key lines of the object opened at line i: those up to the next line that is not one
JsonKeyLines(o, i) == {j \in (i + 1)..Len(o) : \A k \in (i + 1)..j : IsPrefix(JsonKeyStart, o[k])}

\* the name on a key line: the text between the first two double quotes
JsonKeyName(line) == Split(line, DQuote)[2]

\* the string value on a key line: the text between the third and fourth double quotes
JsonStrValue(line) == Split(line, DQuote)[4]

\* the names of the keys of the object opened at line i
JsonKeys(o, i) == {JsonKeyName(o[j]) : j \in JsonKeyLines(o, i)}

BaseFields == {FIELDS_ORDER[i] : i \in 1..Len(FIELDS_ORDER)}

CatalogKeys == <<aztec_key, zama_key, soundness_key>>

\* the key column of the printed rows, top to bottom, whatever the format
RenderedKeys(o, fmt) ==
    IF fmt = "json"
    THEN LET ls == SelectSeq(o, LAMBDA l : IsPrefix(JsonKeyStart \o FieldText["key"] \o <<DQuote>>, l))
         IN [i \in 1..Len(ls) |-> JsonStrValue(ls[i])]
    ELSE IF fmt = "csv"
    THEN [i \in 1..(Len(o) - 1) |-> Split(o[i + 1], Comma)[1]]
    ELSE [i \in 1..(Len(o) - 2) |-> Words(o[i + 2])[1]]

\* every printed row shows the composite score: a ninth column headed
\* composite_score in a table or CSV, the key in every object of the JSON
ScoreShownEverywhere(o, fmt) ==
    IF fmt = "json"
    THEN \A i \in JsonObjects(o) : FieldText["composite_score"] \in JsonKeys(o, i)
    ELSE IF fmt = "csv"
    THEN /\ Len(CsvCells(o)[1]) = Len(FIELDS_ORDER) + 1
         /\ CsvCells(o)[1][Len(FIELDS_ORDER) + 1] = FieldText["composite_score"]
         /\ \A i \in 2..Len(o) : Len(CsvCells(o)[i]) = Len(FIELDS_ORDER) + 1
    ELSE /\ Len(Words(o[1])) = Len(FIELDS_ORDER) + 1
         /\ Words(o[1])[Len(FIELDS_ORDER) + 1] = Upper(FieldText["composite_score"])
         /\ Len(Words(o[2])) = Len(FIELDS_ORDER) + 1

\* some part of the printed text shows the composite score
ScoreShownSomewhere(o, fmt) ==
    IF fmt = "json"
    THEN \E i \in JsonObjects(o) : FieldText["composite_score"] \in JsonKeys(o, i)
    ELSE IF fmt = "csv"
    THEN \/ \E j \in 1..Len(CsvCells(o)[1]) : CsvCells(o)[1][j] = FieldText["composite_score"]
         \/ \E i \in 1..Len(o) : Len(CsvCells(o)[i]) > Len(FIELDS_ORDER)
    ELSE \/ \E j \in 1..Len(Words(o[1])) : Words(o[1])[j] = Upper(FieldText["composite_score"])
         \/ Len(Words(o[2])) > Len(FIELDS_ORDER)

----------------------------------------------------------------------------
(* Claims *)

C3_ScoreFormula ==
    pc = "ret_score" =>
        /\ ret = V_float(45 * par["privacy_level"].n + 40 * par["soundness_focus"].n
                         - 10 * par["performance_cost"].n - 5 * par["dev_complexity"].n)
        /\ par = Stack_aztec => ret.n = 615
        /\ par = Stack_zama => ret.n = 585
        /\ par = Stack_soundness => ret.n = 575

C3_Witness ==
    pc = "ret_score" /\ par = Stack_aztec /\ ret = V_float(615)

\* C4: whatever the options, the printed text shows the composite score (a
\* ninth table or CSV column, the composite_score key in every JSON object) if
\* include_score is set or sort_by is composite_score, and shows it nowhere
\* otherwise.
C4_ScoreShownIff ==
    pc = "done" =>
        IF args.include_score \/ args.sort_by = "composite_score"
        THEN ScoreShownEverywhere(out, args.format)
        ELSE ~ScoreShownSomewhere(out, args.format)

C4_Witness ==
    /\ pc = "done" /\ ~args.include_score /\ args.sort_by = "composite_score"
    /\ args.format = "table" /\ ScoreShownEverywhere(out, args.format)

\* the place of reference r in a list of references
Pos(s, r) == CHOOSE i \in 1..Len(s) : s[i] = r

SortKey(h, r, sort_by) == Get(h[r], sort_by, V_int(0))

\* C5: sort_rows with a sort field is stable in both directions: the result
\* holds the same rows, and two rows whose sort-field values are equal keep the
\* relative order they had in the input, for descending false and true.
C5_SortStable ==
    (pc = "ret_sort" /\ args.sort_by # None) =>
        /\ Len(ret) = Len(rows)
        /\ {ret[i] : i \in 1..Len(ret)} = {rows[i] : i \in 1..Len(rows)}
        /\ \A i, j \in 1..Len(rows) :
              (i < j /\ SortKey(heap, rows[i], args.sort_by) = SortKey(heap, rows[j], args.sort_by))
                  => Pos(ret, rows[i]) < Pos(ret, rows[j])

C5_Witness ==
    /\ pc = "ret_sort" /\ args.sort_by # None /\ args.descending
    /\ Len(rows) = 3 /\ ret = <<2, 1, 3>>
    /\ SortKey(heap, 1, args.sort_by) = SortKey(heap, 3, args.sort_by)

\* C6: --stack all --sort-by composite_score --descending --format csv without
\* --include-score prints a header line whose last column is composite_score
\* and then exactly 3 data rows, one per catalog stack, whose composite_score
\* values do not increase from top to bottom.
C6_CsvDescendingByScore ==
    (/\ pc = "done" /\ args.stack = Text_all /\ args.format = "csv" /\ ~args.include_score
     /\ args.sort_by = "composite_score" /\ args.descending) =>
        LET cells == CsvCells(out)
            score(i) == ParseScore(cells[i][Len(cells[i])])
        IN /\ Len(out) = 4
           /\ cells[1][Len(cells[1])] = FieldText["composite_score"]
           /\ \A i \in 2..4 : Len(cells[i]) = Len(cells[1])
           /\ {cells[i][1] : i \in 2..4} = {CatalogKeys[i] : i \in 1..3}
           /\ \A i \in 2..3 : score(i) >= score(i + 1)

C6_Witness ==
    /\ pc = "done" /\ args.stack = Text_all /\ args.format = "csv" /\ ~args.include_score
    /\ args.sort_by = "composite_score" /\ args.descending
    /\ RenderedKeys(out, "csv") = <<aztec_key, zama_key, soundness_key>>
    /\ ParseScore(CsvCells(out)[2][9]) = 615 /\ ParseScore(CsvCells(out)[4][9]) = 575

\* the cell's text has a comma, a double quote or a newline
NeedsQuoting(s) == \E i \in 1..Len(s) : s[i] \in {Comma, DQuote, Newline}

\* the double quotes among the first n characters
QuotesBefore(s, n) == Cardinality({k \in 1..n : s[k] = DQuote})

\* t is s with every double quote doubled: character i of s lands at i plus
\* the quotes before it, and a quote is followed by one more
IsDoubled(t, s) ==
    /\ Len(t) = Len(s) + QuotesBefore(s, Len(s))
    /\ \A i \in 1..Len(s) :
          /\ t[i + QuotesBefore(s, i - 1)] = s[i]
          /\ s[i] = DQuote => t[i + QuotesBefore(s, i - 1) + 1] = DQuote

\* a pair of double quotes back to one
RECURSIVE HalveQuotes(_)
HalveQuotes(t) ==
    IF t = <<>> THEN <<>>
    ELSE IF Len(t) >= 2 /\ t[1] = DQuote /\ t[2] = DQuote THEN <<DQuote>> \o HalveQuotes(SubSeq(t, 3, Len(t)))
    ELSE <<Head(t)>> \o HalveQuotes(Tail(t))

\* undo the quoting of a cell: strip the outer quotes and halve the doubled ones
Unquote(c) ==
    IF Len(c) >= 2 /\ c[1] = DQuote /\ c[Len(c)] = DQuote THEN HalveQuotes(SubSeq(c, 2, Len(c) - 1)) ELSE c

\* C7: a cell whose text has a comma, a double quote or a newline is emitted
\* as that text with every double quote doubled, inside one pair of double
\* quotes; any other cell is emitted unchanged; undoing the quoting gives the
\* text back.
C7_EscRoundTrip ==
    pc = "ret_esc" =>
        LET s == Str(par)
        IN /\ IF NeedsQuoting(s)
              THEN /\ Len(ret) >= 2 /\ ret[1] = DQuote /\ ret[Len(ret)] = DQuote
                   /\ IsDoubled(SubSeq(ret, 2, Len(ret) - 1), s)
              ELSE ret = s
           /\ Unquote(ret) = s

C7_Witness ==
    pc = "ret_esc" /\ par = V_str(<<LowerA, DQuote, Comma, LowerA>>) /\ ret = <<DQuote, LowerA, DQuote, DQuote, Comma, LowerA, DQuote>>

\* C8: the catalog is never mutated: in every state of every run, the path
\* that writes composite_score into the rows included, STACKS holds the three
\* records aztec, zama, soundness in that order, under unique keys, with every
\* field value as declared and no composite_score attached.
C8_CatalogUnchanged ==
    (pc \in {"start", "selected", "built", "scored", "sorted", "done"}) =>
        /\ STACKS = InitSTACKS
        /\ list_keys(STACKS) = CatalogKeys
        /\ \A i, j \in 1..Len(STACKS) : STACKS[i].key = STACKS[j].key => i = j
        /\ \A i \in 1..Len(STACKS) :
              /\ heap[STACKS[i].ref] = InitHeap[i]
              /\ heap[STACKS[i].ref]["key"].s = STACKS[i].key
              /\ "composite_score" \notin DOMAIN heap[STACKS[i].ref]

C8_Witness ==
    /\ pc = "done" /\ args.sort_by = "composite_score" /\ ~args.include_score /\ args.stack = Text_all
    /\ \A i \in 1..Len(rows) : "composite_score" \in DOMAIN heap[rows[i]]
    /\ heap[1] = Stack_aztec

\* C9: sort_rows without a sort field returns its input, the same rows in the
\* same order, for either value of descending; so a run without --sort-by
\* prints the rows in the order of the selected stacks (aztec, zama, soundness
\* for --stack all), also under --descending.
C9_NoSortIdentity ==
    /\ (pc = "ret_sort" /\ args.sort_by = None) => ret = rows
    /\ (pc \in {"sorted", "done"} /\ args.sort_by = None) =>
          [i \in 1..Len(rows) |-> heap[rows[i]]["key"].s] = [i \in 1..Len(stacks) |-> heap[stacks[i]]["key"].s]
    /\ (pc = "done" /\ args.sort_by = None) =>
          /\ RenderedKeys(out, args.format) = [i \in 1..Len(stacks) |-> heap[stacks[i]]["key"].s]
          /\ args.stack = Text_all => RenderedKeys(out, args.format) = CatalogKeys

C9_Witness ==
    /\ pc = "done" /\ args.sort_by = None /\ args.descending /\ args.stack = Text_all
    /\ RenderedKeys(out, args.format) = <<aztec_key, zama_key, soundness_key>>

\* C10: under --sort-by composite_score the flag --include-score changes
\* nothing: the run with it and the run without it print the same text, for
\* every --stack, --format and --descending; and once main has scored the rows
\* each row's composite_score is the score of the catalog record of its key.
C10_IncludeScoreNoEffect ==
    /\ (pc = "done" /\ last # <<>> /\ args.sort_by = "composite_score") =>
          /\ last[1].args = [args EXCEPT !.include_score = ~@]
          /\ last[1].out = out
    /\ (pc \in {"scored", "sorted", "done"} /\ args.sort_by = "composite_score") =>
          \A i \in 1..Len(rows) :
              /\ "composite_score" \in DOMAIN heap[rows[i]]
              /\ heap[rows[i]]["composite_score"] = score_stack(heap[Lookup(STACKS, heap[rows[i]]["key"].s)])

C10_Witness ==
    /\ pc = "done" /\ last # <<>> /\ args.sort_by = "composite_score" /\ args.include_score
    /\ ~last[1].args.include_score /\ args.stack = Text_all /\ args.format = "json"
    /\ last[1].out = out /\ Len(out) > 3

====
